---- MODULE Spec2Model ----
(***************************************************************************)
(* SubproblemComp (src/openmdao/core/Subproblem/SubproblemComp.py): an     *)
(* explicit component that wraps an inner Problem.  The module models      *)
(*   __init__         selector resolution against the model's tables,      *)
(*   setup            provisioning of the inner Problem,                   *)
(*   compute          forward evaluation with the complex-step switch,     *)
(*   compute_partials the total-derivative call and Jacobian assembly.     *)
(* Names are sequences of one-character strings, so that str.endswith is   *)
(* computed character by character.                                        *)
(***************************************************************************)
EXTENDS Integers, Sequences, FiniteSets, TLC

VARIABLES
    model_inputs,       \* dict prom_name -> meta of the model's inputs, in iteration order
    model_outputs,      \* dict prom_name -> meta of the model's outputs, in iteration order
    inputs_arg,         \* the `inputs` argument of __init__
    outputs_arg,        \* the `outputs` argument of __init__
    driver_arg,         \* the `driver` argument of __init__ (prob_args['driver'])
    pc,                 \* "new" | "constructed" | "failed" | "ready"
    err,                \* what __init__ raised: [kind, list, at]
    warned,             \* issue_warning was called by __init__
    opt_inputs,         \* self.options['inputs']: ordered dict alias -> meta
    opt_outputs,        \* self.options['outputs']: ordered dict alias -> meta
    prev_complex_step,  \* self._prev_complex_step
    subprob,            \* self._subprob
    input_names,        \* self._input_names
    output_names,       \* self._output_names
    outputs_vec,        \* the component's output values, by alias
    declared,           \* the (of, wrt) alias pairs given to declare_partials
    partials,           \* the component's Jacobian blocks, by (of, wrt) alias pair
    totals,             \* the last compute_totals call: [called, of, wrt, raised]
    log                 \* one record per compute call, in call order

vars == <<model_inputs, model_outputs, inputs_arg, outputs_arg, driver_arg, pc, err,
          warned, opt_inputs, opt_outputs, prev_complex_step, subprob, input_names,
          output_names, outputs_vec, declared, partials, totals, log>>

(***************************************************************************)
(* Bounds of the model.                                                    *)
(***************************************************************************)
MaxSel == 2        \* selectors per list
MaxTable == 2      \* entries per variable table
MaxEvals == 3      \* compute calls per behaviour

(***************************************************************************)
(* Names.                                                                  *)
(***************************************************************************)
nm_r == <<"r">>
nm_s_r == <<"s", ".", "r">>
nm_bar == <<"b", "a", "r">>
nm_x == <<"x">>
nm_s_x == <<"s", ".", "x">>
nm_fox == <<"f", "o", "x">>
nm_q == <<"q">>
nm_a == <<"a">>
nm_b == <<"b">>

InPool == {nm_r, nm_s_r, nm_bar}
OutPool == {nm_x, nm_s_x, nm_fox}

Range(s) == {s[i] : i \in DOMAIN s}

Injective(s) == \A i, j \in DOMAIN s : s[i] = s[j] => i = j

SeqsUpTo(S, n) == UNION {[1..k -> S] : k \in 0..n}

Tables(pool, n) == {t \in SeqsUpTo(pool, n) : Injective(t)}

(***************************************************************************)
(* Selectors: a str, a tuple (prom_name, var_name), or anything else.      *)
(***************************************************************************)
StrSel(n) == [kind |-> "str", prom |-> n, alias |-> n]
TupleSel(p, a) == [kind |-> "tuple", prom |-> p, alias |-> a]
OtherSel == [kind |-> "other", prom |-> <<>>, alias |-> <<>>]

Selectors(proms, strs, aliases) ==
    {StrSel(n) : n \in strs}
        \cup {TupleSel(p, a) : p \in proms, a \in aliases}
        \cup {OtherSel}

(***************************************************************************)
(* Python dictionaries: a sequence of [key, meta] with distinct keys, in   *)
(* insertion order.  A meta is identified with its 'prom_name'.            *)
(***************************************************************************)
Keys(d) == [i \in DOMAIN d |-> d[i].key]

HasKey(d, k) == \E i \in DOMAIN d : d[i].key = k

Lookup(d, k) == d[CHOOSE i \in DOMAIN d : d[i].key = k].meta

DictSet(d, k, m) ==
    IF HasKey(d, k)
    THEN [i \in DOMAIN d |-> IF d[i].key = k THEN [key |-> k, meta |-> m] ELSE d[i]]
    ELSE Append(d, [key |-> k, meta |-> m])

RECURSIVE DictUpdate(_, _)
DictUpdate(d, e) ==
    IF e = <<>> THEN d
    ELSE DictUpdate(DictSet(d, Head(e).key, Head(e).meta), Tail(e))

\* str.endswith
EndsWith(s, suf) ==
    /\ Len(suf) <= Len(s)
    /\ SubSeq(s, Len(s) - Len(suf) + 1, Len(s)) = suf

\* {var: meta for _, meta in table.items() if meta['prom_name'] == prom}
RECURSIVE DictCompEq(_, _, _)
DictCompEq(var, table, prom) ==
    IF table = <<>> THEN <<>>
    ELSE LET rest == DictCompEq(var, SubSeq(table, 1, Len(table) - 1), prom)
             m == table[Len(table)]
         IN IF m = prom THEN DictSet(rest, var, m) ELSE rest

\* {var: meta for _, meta in table.items() if meta['prom_name'].endswith(var)}
RECURSIVE DictCompEndsWith(_, _)
DictCompEndsWith(var, table) ==
    IF table = <<>> THEN <<>>
    ELSE LET rest == DictCompEndsWith(var, SubSeq(table, 1, Len(table) - 1))
             m == table[Len(table)]
         IN IF EndsWith(m, var) THEN DictSet(rest, var, m) ELSE rest

(***************************************************************************)
(* __init__: the loops over `inputs` and `outputs`.  A resolution returns  *)
(* [kind, opts]: kind is "ok" or names the exception that was raised.      *)
(***************************************************************************)
\* ResolveTuple with the table looked up before the alias is checked.
ResolveTuple_LookupFirst(opts, table, sel) ==
    LET d == DictCompEq(sel.alias, table, sel.prom)
    IN IF Len(d) = 0
       THEN [kind |-> "DoesNotExist", opts |-> opts]
       ELSE IF HasKey(opts, sel.alias)
       THEN [kind |-> "AlreadyExists", opts |-> opts]
       ELSE [kind |-> "ok", opts |-> DictUpdate(opts, d)]

\* type(sel) is tuple
ResolveTuple(opts, table, sel) ==
    IF HasKey(opts, sel.alias)
    THEN [kind |-> "AlreadyExists", opts |-> opts]
    ELSE LET d == DictCompEq(sel.alias, table, sel.prom)
         IN IF Len(d) = 0
            THEN [kind |-> "DoesNotExist", opts |-> opts]
            ELSE [kind |-> "ok", opts |-> DictUpdate(opts, d)]

\* type(sel) is str
ResolveStr(opts, table, sel) ==
    IF HasKey(opts, sel.alias)
    THEN [kind |-> "AlreadyExists", opts |-> opts]
    ELSE LET d == DictCompEndsWith(sel.alias, table)
         IN IF Len(d) > 1
            THEN [kind |-> "Ambiguous", opts |-> opts]
            ELSE IF Len(d) = 0
            THEN [kind |-> "DoesNotExist", opts |-> opts]
            ELSE [kind |-> "ok", opts |-> DictUpdate(opts, d)]

ResolveSelector(opts, table, sel) ==
    IF sel.kind = "tuple" THEN ResolveTuple(opts, table, sel)
    ELSE IF sel.kind = "str" THEN ResolveStr(opts, table, sel)
    ELSE [kind |-> "InvalidType", opts |-> opts]

\* for sel in sels: ...   The result also tells at which selector it raised.
RECURSIVE ResolveList(_, _, _, _)
ResolveList(opts, table, sels, at) ==
    IF at > Len(sels) THEN [kind |-> "ok", opts |-> opts, at |-> 0]
    ELSE LET r == ResolveSelector(opts, table, sels[at])
         IN IF r.kind # "ok"
            THEN [kind |-> r.kind, opts |-> r.opts, at |-> at]
            ELSE ResolveList(r.opts, table, sels, at + 1)

ResolveInputs(table, sels) == ResolveList(<<>>, table, sels, 1)

ResolveOutputs(table, sels) == ResolveList(<<>>, table, sels, 1)

NoError == [kind |-> "ok", list |-> "none", at |-> 0]

NoSubprob ==
    [exists |-> FALSE, driver |-> "None", alloc_complex |-> FALSE,
     cs_mode |-> FALSE, vals |-> [n \in {} |-> 0]]

NoTotals == [called |-> FALSE, of |-> <<>>, wrt |-> <<>>, raised |-> FALSE]

EmptyMap == [n \in {} |-> 0]

Construct ==
    /\ pc = "new"
    /\ warned' = (driver_arg # "None")
    /\ prev_complex_step' = FALSE
    /\ LET ri == ResolveInputs(model_inputs, inputs_arg)
           ro == ResolveOutputs(model_outputs, outputs_arg)
       IN IF ri.kind # "ok"
          THEN /\ pc' = "failed"
               /\ err' = [kind |-> ri.kind, list |-> "inputs", at |-> ri.at]
               /\ opt_inputs' = ri.opts
               /\ opt_outputs' = <<>>
          ELSE IF ro.kind # "ok"
          THEN /\ pc' = "failed"
               /\ err' = [kind |-> ro.kind, list |-> "outputs", at |-> ro.at]
               /\ opt_inputs' = ri.opts
               /\ opt_outputs' = ro.opts
          ELSE /\ pc' = "constructed"
               /\ err' = NoError
               /\ opt_inputs' = ri.opts
               /\ opt_outputs' = ro.opts
    /\ UNCHANGED <<model_inputs, model_outputs, inputs_arg, outputs_arg, driver_arg,
                   subprob, input_names, output_names, outputs_vec, declared,
                   partials, totals, log>>

(***************************************************************************)
(* The inner Problem.                                                      *)
(***************************************************************************)
\* om.Problem(driver=driver): "If not specified, a simple "Run Once" driver
\* will be used."
ProblemDriver(driver) == IF driver = "None" THEN "RunOnce" ELSE driver

AllVars == Range(model_inputs) \cup Range(model_outputs)

\* p.setup(force_alloc_complex=...); p.final_setup(): every variable is back at
\* its default value.
ProblemSetup(p, alloc) ==
    [p EXCEPT !.exists = TRUE, !.alloc_complex = alloc,
              !.vals = [n \in AllVars |-> 1]]

\* The settled value of an output: a function of the inner inputs alone.
Settled(n, vals) ==
    (Len(n) + Cardinality({i \in Range(model_inputs) : vals[i] = 1})) % 2

\* p.run_model() / p.run_driver(): the model settles its outputs.
RunModel(vals) ==
    [n \in DOMAIN vals |->
        IF n \in Range(model_outputs) THEN Settled(n, vals) ELSE vals[n]]

\* The block d(of)/d(wrt) of two promoted variables of the model.
Block(of, wrt) == <<of, wrt>>

\* p.compute_totals(of=..., wrt=..., use_abs_names=False) raises on a name
\* that is no promoted variable of the model.
TotalsRaise(of, wrt) ==
    \/ \E i \in DOMAIN of : of[i] \notin Range(model_outputs)
    \/ \E i \in DOMAIN wrt : wrt[i] \notin Range(model_inputs)

ComputeTotals(of, wrt) ==
    [pr \in Range(of) \X Range(wrt) |-> Block(pr[1], pr[2])]

(***************************************************************************)
(* setup                                                                   *)
(***************************************************************************)
Setup ==
    /\ pc \in {"constructed", "ready"}
    /\ pc' = "ready"
    /\ subprob' = ProblemSetup([NoSubprob EXCEPT !.driver = ProblemDriver(driver_arg)],
                               FALSE)
    /\ input_names' = Keys(opt_inputs)
    /\ output_names' = Keys(opt_outputs)
    /\ outputs_vec' = [a \in Range(Keys(opt_outputs)) |-> 1]
    /\ declared' = Range(Keys(opt_outputs)) \X Range(Keys(opt_inputs))
    /\ UNCHANGED <<model_inputs, model_outputs, inputs_arg, outputs_arg, driver_arg,
                   err, warned, opt_inputs, opt_outputs, prev_complex_step,
                   partials, totals, log>>

(***************************************************************************)
(* compute                                                                 *)
(***************************************************************************)
\* NeedsReprovision that only ever switches to complex storage.
NeedsReprovision_OnlyToComplex(under, prev) == under /\ ~prev

\* self.under_complex_step != self._prev_complex_step
NeedsReprovision(under, prev) == under # prev

\* p.setup(force_alloc_complex=under); p.final_setup();
\* p.set_complex_step_mode(under)
Reprovision(p, under) == [ProblemSetup(p, under) EXCEPT !.cs_mode = under]

\* for inp in names: p.set_val(self.options['inputs'][inp]['prom_name'], inputs[inp])
RECURSIVE SetVals(_, _, _)
SetVals(vals, names, inp) ==
    IF names = <<>> THEN vals
    ELSE SetVals([vals EXCEPT ![Lookup(opt_inputs, Head(names))] = inp[Head(names)]],
                 Tail(names), inp)

\* if p.driver is not None
UsesDriver(p) == p.driver # "None"

\* StoreOutputs that invalidates the outputs when the run raised.
StoreOutputs_Invalidate(outs, p, raised) ==
    IF raised THEN [a \in DOMAIN outs |-> -1]
    ELSE [a \in DOMAIN outs |->
            IF a \in Range(output_names) THEN p.vals[Lookup(opt_outputs, a)]
            ELSE outs[a]]

\* for op in self._output_names: outputs[op] = p.get_val(...['prom_name']);
\* not reached when the run raised.
StoreOutputs(outs, p, raised) ==
    IF raised THEN outs
    ELSE [a \in DOMAIN outs |->
            IF a \in Range(output_names) THEN p.vals[Lookup(opt_outputs, a)]
            ELSE outs[a]]

Compute(under, inp, raised) ==
    /\ pc = "ready"
    /\ Len(log) < MaxEvals
    /\ LET reprov == NeedsReprovision(under, prev_complex_step)
           p1 == IF reprov THEN Reprovision(subprob, under) ELSE subprob
           p2 == [p1 EXCEPT !.vals = SetVals(@, input_names, inp)]
           p3 == IF raised THEN p2 ELSE [p2 EXCEPT !.vals = RunModel(@)]
           outs == StoreOutputs(outputs_vec, p3, raised)
       IN /\ prev_complex_step' = IF reprov THEN under ELSE prev_complex_step
          /\ subprob' = p3
          /\ outputs_vec' = outs
          /\ log' = Append(log,
                 [mode |-> under, inputs |-> inp, ok |-> ~raised,
                  reprov |-> IF reprov THEN 1 ELSE 0,
                  alloc |-> p2.alloc_complex,
                  run_driver |-> IF UsesDriver(p2) THEN 1 ELSE 0,
                  run_model |-> IF UsesDriver(p2) THEN 0 ELSE 1,
                  outputs |-> outs])
    /\ UNCHANGED <<model_inputs, model_outputs, inputs_arg, outputs_arg, driver_arg,
                   pc, err, warned, opt_inputs, opt_outputs, input_names,
                   output_names, declared, partials, totals>>

(***************************************************************************)
(* compute_partials                                                        *)
(***************************************************************************)
ComputePartials(inp) ==
    /\ pc = "ready"
    /\ LET raised == TotalsRaise(output_names, input_names)
           tots == ComputeTotals(output_names, input_names)
       IN /\ subprob' = [subprob EXCEPT !.vals = SetVals(@, input_names, inp)]
          /\ totals' = [called |-> TRUE, of |-> output_names, wrt |-> input_names,
                        raised |-> raised]
          /\ partials' = IF raised THEN partials
                         ELSE [pr \in Range(output_names) \X Range(input_names) |->
                                  tots[pr]]
    /\ UNCHANGED <<model_inputs, model_outputs, inputs_arg, outputs_arg, driver_arg,
                   pc, err, warned, opt_inputs, opt_outputs, prev_complex_step,
                   input_names, output_names, outputs_vec, declared, log>>

(***************************************************************************)
(* Specifications.                                                         *)
(***************************************************************************)
InputValues == [Range(input_names) -> 0..1]

\* ins, outs: sets of <<table, selector list>>
InitWith(ins, outs, drivers) ==
    /\ \E c \in ins : model_inputs = c[1] /\ inputs_arg = c[2]
    /\ \E c \in outs : model_outputs = c[1] /\ outputs_arg = c[2]
    /\ driver_arg \in drivers
    /\ pc = "new"
    /\ err = NoError
    /\ warned = FALSE
    /\ opt_inputs = <<>>
    /\ opt_outputs = <<>>
    /\ prev_complex_step = FALSE
    /\ subprob = NoSubprob
    /\ input_names = <<>>
    /\ output_names = <<>>
    /\ outputs_vec = EmptyMap
    /\ declared = {}
    /\ partials = EmptyMap
    /\ totals = NoTotals
    /\ log = <<>>

\* The component's life: a few models and selector lists, every call order.
LifeInputs ==
    {<< <<nm_r>>, <<StrSel(nm_r)>> >>,
     << <<nm_s_r>>, <<StrSel(nm_r)>> >>,
     << <<nm_r, nm_s_r>>, <<TupleSel(nm_s_r, nm_a)>> >>,
     << <<nm_r, nm_s_r>>, <<TupleSel(nm_s_r, nm_r)>> >>,
     << <<nm_r>>, <<StrSel(nm_r), TupleSel(nm_q, nm_r)>> >>}

LifeOutputs ==
    {<< <<nm_x>>, <<StrSel(nm_x)>> >>,
     << <<nm_x, nm_s_x>>, <<TupleSel(nm_s_x, nm_b)>> >>,
     << <<nm_x, nm_s_x>>, <<TupleSel(nm_x, nm_x), TupleSel(nm_s_x, nm_b)>> >>}

Init == InitWith(LifeInputs, LifeOutputs, {"None", "drv"})

Next ==
    \/ Construct
    \/ Setup
    \/ \E under \in BOOLEAN, raised \in BOOLEAN :
           \E inp \in InputValues : Compute(under, inp, raised)
    \/ \E inp \in InputValues : ComputePartials(inp)

Spec == Init /\ [][Next]_vars

\* Construction, and setup of what was constructed: every table and selector
\* list within the bounds on one side, a fixed list on the other.
InSelectors == Selectors(InPool \cup {nm_q}, {nm_r, nm_q}, {nm_r, nm_a})
OutSelectors == Selectors(OutPool \cup {nm_q}, {nm_x, nm_q}, {nm_x, nm_b})

InitResolve ==
    \/ InitWith(Tables(InPool, MaxTable) \X SeqsUpTo(InSelectors, MaxSel),
                {<< <<nm_x, nm_s_x>>, <<TupleSel(nm_s_x, nm_b)>> >>},
                {"None", "drv"})
    \/ InitWith({<< <<nm_r, nm_s_r>>, <<TupleSel(nm_s_r, nm_a)>> >>},
                Tables(OutPool, MaxTable) \X SeqsUpTo(OutSelectors, MaxSel),
                {"None", "drv"})

NextResolve == Construct \/ Setup

SpecResolve == InitResolve /\ [][NextResolve]_vars

(***************************************************************************)
(* Vocabulary of the properties.                                           *)
(***************************************************************************)
\* suf is the whole of s, or the part of s after a '.'
DottedSuffix(s, suf) ==
    /\ EndsWith(s, suf)
    /\ \/ Len(s) = Len(suf)
       \/ s[Len(s) - Len(suf)] = "."

\* The table entries a selector names: by equality for a tuple, as a dotted-path
\* suffix for a str.
Matching(table, sel) ==
    {i \in DOMAIN table :
        IF sel.kind = "tuple" THEN table[i] = sel.prom
        ELSE DottedSuffix(table[i], sel.alias)}

\* __init__ got as far as selector i of the list
Reached(list, i) ==
    /\ pc # "new"
    /\ \/ err.kind = "ok"
       \/ list = "inputs" /\ err.list = "outputs"
       \/ err.list = list /\ err.at >= i

RaisedAt(list, i, kind) == err = [kind |-> kind, list |-> list, at |-> i]

Bound(list, i) == Reached(list, i) /\ ~(err.list = list /\ err.at = i)

Lists == {"inputs", "outputs"}
ArgOf(list) == IF list = "inputs" THEN inputs_arg ELSE outputs_arg
TableOf(list) == IF list = "inputs" THEN model_inputs ELSE model_outputs
OptsOf(list) == IF list = "inputs" THEN opt_inputs ELSE opt_outputs

\* selector i repeats the alias of an earlier selector of its list
RepeatsAlias(sels, i) ==
    /\ sels[i].kind # "other"
    /\ \E j \in 1..(i - 1) : sels[j].kind # "other" /\ sels[j].alias = sels[i].alias

PromsOf(opts, names) == [i \in DOMAIN names |-> Lookup(opts, names[i])]

PrevMode(i) == IF i = 1 THEN FALSE ELSE log[i - 1].mode

\* evaluates i, i+1, i+2 are real, complex, real on the same inputs
RealComplexReal(i) ==
    /\ i + 2 <= Len(log)
    /\ ~log[i].mode /\ log[i + 1].mode /\ ~log[i + 2].mode
    /\ log[i + 1].inputs = log[i].inputs
    /\ log[i + 2].inputs = log[i].inputs

(***************************************************************************)
(* C1.  An evaluate re-provisions the inner Problem once when its mode     *)
(* differs from the mode of the evaluate before it (real for the first     *)
(* one) and not at all when the modes are equal.  Hence real, complex,     *)
(* real on the same inputs re-provisions once at each of the two changes,  *)
(* exactly twice in all on a node that enters the sequence in real mode,   *)
(* and the two real evaluations, when both succeed, return equal outputs.  *)
(***************************************************************************)
C1_ReprovisionOncePerModeChange ==
    /\ \A i \in DOMAIN log :
          log[i].reprov = IF log[i].mode # PrevMode(i) THEN 1 ELSE 0
    /\ \A i \in DOMAIN log :
          RealComplexReal(i) =>
             /\ log[i + 1].reprov + log[i + 2].reprov = 2
             /\ ~PrevMode(i) =>
                   log[i].reprov + log[i + 1].reprov + log[i + 2].reprov = 2
             /\ log[i].ok /\ log[i + 2].ok => log[i].outputs = log[i + 2].outputs

C1_Witness ==
    /\ Len(log) = 3
    /\ RealComplexReal(1)
    /\ \A i \in 1..3 : log[i].ok
    /\ log[1].reprov + log[2].reprov + log[3].reprov = 2
    /\ log[1].outputs = log[3].outputs

(***************************************************************************)
(* C2.  Whenever the inner model is run, the inner Problem is allocated    *)
(* for the mode that evaluate was asked for, and _prev_complex_step is the *)
(* mode the inner Problem was last provisioned for.                        *)
(***************************************************************************)
C2_ContextMatchesRequestedMode ==
    /\ \A i \in DOMAIN log : log[i].alloc = log[i].mode
    /\ subprob.exists => prev_complex_step = subprob.alloc_complex

(***************************************************************************)
(* C3.  A str selector that __init__ reaches, whose alias is still free    *)
(* and which names two or more table entries, raises the ambiguity error,  *)
(* for inputs and for outputs and in every table order.                    *)
(***************************************************************************)
C3_AmbiguousAlwaysRaises ==
    \A list \in Lists : \A i \in DOMAIN ArgOf(list) :
        (/\ Reached(list, i)
         /\ ArgOf(list)[i].kind = "str"
         /\ ~RepeatsAlias(ArgOf(list), i)
         /\ Cardinality(Matching(TableOf(list), ArgOf(list)[i])) >= 2)
        => RaisedAt(list, i, "Ambiguous")

(***************************************************************************)
(* C4.  A selector that __init__ reaches and whose alias was bound by an   *)
(* earlier selector of the same list raises the already-exists error,      *)
(* whatever the two forms and whether or not its promoted name is in the   *)
(* table; construction fails and no inner Problem exists.                  *)
(***************************************************************************)
C4_DuplicateAliasRaises ==
    \A list \in Lists : \A i \in DOMAIN ArgOf(list) :
        (Reached(list, i) /\ RepeatsAlias(ArgOf(list), i))
        => /\ RaisedAt(list, i, "AlreadyExists")
           /\ pc = "failed"
           /\ ~subprob.exists

C4_Witness ==
    /\ RaisedAt("inputs", 2, "AlreadyExists")
    /\ inputs_arg[1].kind = "str"
    /\ inputs_arg[2].kind = "tuple"
    /\ inputs_arg[2].prom \notin Range(model_inputs)
    /\ pc = "failed"

(***************************************************************************)
(* C5.  A list without repeated aliases, each of whose selectors names     *)
(* exactly one table entry, resolves: its keys are the requested aliases   *)
(* in selector order and every alias is bound to the entry its selector    *)
(* names.                                                                  *)
(***************************************************************************)
C5_ResolvesInOrder ==
    \A list \in Lists :
        (/\ Reached(list, 1)
         /\ \A i \in DOMAIN ArgOf(list) :
               /\ ArgOf(list)[i].kind # "other"
               /\ ~RepeatsAlias(ArgOf(list), i)
               /\ Cardinality(Matching(TableOf(list), ArgOf(list)[i])) = 1)
        => /\ err.list # list
           /\ Keys(OptsOf(list)) = [i \in DOMAIN ArgOf(list) |-> ArgOf(list)[i].alias]
           /\ \A i \in DOMAIN ArgOf(list) :
                 \E k \in Matching(TableOf(list), ArgOf(list)[i]) :
                     Lookup(OptsOf(list), ArgOf(list)[i].alias) = TableOf(list)[k]

(***************************************************************************)
(* C6.  A selector that __init__ reaches, whose alias is still free and    *)
(* which names no table entry, raises the does-not-exist error;            *)
(* construction fails and no inner Problem exists.                         *)
(***************************************************************************)
C6_UnknownAlwaysRaises ==
    \A list \in Lists : \A i \in DOMAIN ArgOf(list) :
        (/\ Reached(list, i)
         /\ ArgOf(list)[i].kind # "other"
         /\ ~RepeatsAlias(ArgOf(list), i)
         /\ Matching(TableOf(list), ArgOf(list)[i]) = {})
        => /\ RaisedAt(list, i, "DoesNotExist")
           /\ pc = "failed"
           /\ ~subprob.exists

(***************************************************************************)
(* C7.  compute_partials calls compute_totals with the promoted names of   *)
(* the output bindings as 'of' and of the input bindings as 'wrt', and     *)
(* stores for every (output alias, input alias) pair the block of the      *)
(* corresponding promoted-name pair.                                       *)
(***************************************************************************)
C7_TotalsByPromotedName ==
    totals.called =>
        /\ totals.of = PromsOf(opt_outputs, output_names)
        /\ totals.wrt = PromsOf(opt_inputs, input_names)
        /\ DOMAIN partials = Range(output_names) \X Range(input_names)
        /\ \A pr \in DOMAIN partials :
              partials[pr] = Block(Lookup(opt_outputs, pr[1]), Lookup(opt_inputs, pr[2]))

(***************************************************************************)
(* C8.  As claimed: after an evaluate whose inner run raised, following a  *)
(* successful evaluate, the outputs no longer hold the values the          *)
(* successful evaluate wrote.                                              *)
(***************************************************************************)
C8_FailedEvaluateInvalidatesOutputs ==
    \A i \in DOMAIN log :
        (i > 1 /\ ~log[i].ok /\ log[i - 1].ok) => log[i].outputs # log[i - 1].outputs

(***************************************************************************)
(* C8, amended.  An evaluate whose inner run raised writes no output: the  *)
(* outputs after the call are the outputs before it, so they still hold    *)
(* what the earlier successful evaluate wrote.                             *)
(***************************************************************************)
C8_FailedEvaluateKeepsOutputs ==
    [][(Len(log') = Len(log) + 1 /\ ~log'[Len(log')].ok)
          => /\ outputs_vec' = outputs_vec
             /\ log'[Len(log')].outputs = outputs_vec]_vars

C8_Witness ==
    /\ Len(log) = 2
    /\ log[1].ok
    /\ ~log[2].ok
    /\ outputs_vec = log[1].outputs
    /\ \E a \in DOMAIN outputs_vec : outputs_vec[a] = 0

(***************************************************************************)
(* C9.  An evaluate runs the driver exactly when a driver was given to     *)
(* __init__; with driver=None it calls run_model once and never            *)
(* run_driver.                                                             *)
(***************************************************************************)
C9_DriverRunsIffSupplied ==
    \A i \in DOMAIN log :
        /\ log[i].run_driver = 1 <=> driver_arg # "None"
        /\ driver_arg = "None" => log[i].run_model = 1 /\ log[i].run_driver = 0

(***************************************************************************)
(* C10.  A str selector is bound only to an entry of which it is a         *)
(* dotted-path suffix, and an entry that merely ends with its characters   *)
(* does not count toward ambiguity.                                        *)
(***************************************************************************)
C10_StrMatchesDottedSuffix ==
    \A list \in Lists : \A i \in DOMAIN ArgOf(list) :
        ArgOf(list)[i].kind = "str" =>
            /\ Bound(list, i) =>
                  DottedSuffix(Lookup(OptsOf(list), ArgOf(list)[i].alias),
                               ArgOf(list)[i].alias)
            /\ RaisedAt(list, i, "Ambiguous") =>
                  Cardinality(Matching(TableOf(list), ArgOf(list)[i])) >= 2

====
